---- MODULE Spec2Model ----
(***************************************************************************)
(* A model of wasm-cookies (src/src/cookies.rs): the pure layer that       *)
(* parses a cookie string into key/value pairs and builds the directive    *)
(* strings that set or delete a cookie.                                    *)
(*                                                                         *)
(* A Rust &str is modelled as what it is, a sequence of UTF-8 bytes        *)
(* (naturals below 256).  The strings the model feeds to the program are   *)
(* ASCII; strings the program computes (percent-decoded ones) may hold any *)
(* byte and are validated as UTF-8 the way String::from_utf8 does.         *)
(***************************************************************************)
EXTENDS Naturals, Sequences, FiniteSets

VARIABLES
    cookie_string,  \* the cookie string handed to the parsing functions
    name,           \* the name argument
    value,          \* the value argument
    options,        \* the CookieOptions value built so far
    now,            \* the host clock, Date::now(), in milliseconds
    lenient,        \* which urlencoding 1.x the build links (see decode)
    op,             \* the function called last ("init" before any call)
    result          \* what that call returned

vars == <<cookie_string, name, value, options, now, lenient, op, result>>

(***************************************************************************)
(* Text.                                                                   *)
(***************************************************************************)

\* The printable ASCII characters in code order, starting at 32 (space); the
\* double quote (34), the backslash (92) and the backtick (96) are spelled out.
Printable ==
    << " ", "!", "dquote", "#", "$", "%", "&", "'", "(", ")", "*", "+", ",", "-", ".", "/",
       "0", "1", "2", "3", "4", "5", "6", "7", "8", "9", ":", ";", "<", "=", ">", "?",
       "@", "A", "B", "C", "D", "E", "F", "G", "H", "I", "J", "K", "L", "M", "N", "O",
       "P", "Q", "R", "S", "T", "U", "V", "W", "X", "Y", "Z", "[", "backslash", "]", "^", "_",
       "backtick", "a", "b", "c", "d", "e", "f", "g", "h", "i", "j", "k", "l", "m", "n", "o",
       "p", "q", "r", "s", "t", "u", "v", "w", "x", "y", "z", "{", "|", "}", "~" >>

\* The byte of a printable ASCII character.
Ord(c) == 31 + (CHOOSE i \in 1..Len(Printable) : Printable[i] = c)

\* A string literal: the bytes of a tuple of characters.
Lit(cs) == [i \in 1..Len(cs) |-> Ord(cs[i])]

\* The bytes the program looks for or writes.
EqualsSign == Ord("=")

Semicolon == Ord(";")

Percent == Ord("%")

Digit0 == Ord("0")

UpperA == Ord("A")

\* '-', '_', '.', '~'
UnreservedMarks == {Ord("-"), Ord("_"), Ord("."), Ord("~")}

\* The concatenation of a sequence of strings.
RECURSIVE Concat(_)
Concat(ss) == IF ss = <<>> THEN <<>> ELSE Head(ss) \o Concat(Tail(ss))

\* str::split(sep): the pieces between the separators, in order; a string
\* with no separator is one piece, the empty string included.
RECURSIVE Split(_, _)
Split(s, sep) ==
    IF \E i \in 1..Len(s) : s[i] = sep
    THEN LET i == CHOOSE k \in 1..Len(s) :
                      s[k] = sep /\ \A j \in 1..(k - 1) : s[j] # sep
         IN  <<SubSeq(s, 1, i - 1)>> \o Split(SubSeq(s, i + 1, Len(s)), sep)
    ELSE <<s>>

\* char::is_whitespace on an ASCII byte: tab, LF, VT, FF, CR and space.
IsWhitespace(b) == b \in (9..13) \cup {32}

\* str::trim: without its leading and trailing whitespace.
Trim(s) ==
    LET keep == {i \in 1..Len(s) : ~IsWhitespace(s[i])}
    IN  IF keep = {} THEN <<>>
        ELSE LET lo == CHOOSE i \in keep : \A j \in keep : i <= j
                 hi == CHOOSE i \in keep : \A j \in keep : j <= i
             IN  SubSeq(s, lo, hi)

(***************************************************************************)
(* The raw parser.                                                         *)
(***************************************************************************)

\* process_key_value_str, were a pair with an empty key refused.
process_key_value_str_no_empty_key(key_value_str) ==
    LET key_value_iter == Split(key_value_str, EqualsSign)
    IN  IF Len(key_value_iter) >= 2 /\ Trim(key_value_iter[1]) # <<>>
        THEN [ok |-> TRUE, key |-> Trim(key_value_iter[1]),
              value |-> Trim(key_value_iter[2])]
        ELSE [ok |-> FALSE]

\* process_key_value_str: split on '=' and take the first two pieces.
process_key_value_str(key_value_str) ==
    LET key_value_iter == Split(key_value_str, EqualsSign)
    IN  IF Len(key_value_iter) >= 2
        THEN [ok |-> TRUE, key |-> Trim(key_value_iter[1]),
              value |-> Trim(key_value_iter[2])]
        ELSE [ok |-> FALSE]

\* filter_map over the segments: the Ok pairs, in order.
RECURSIVE FilterPairs(_)
FilterPairs(segs) ==
    IF segs = <<>> THEN <<>>
    ELSE LET r == process_key_value_str(Head(segs))
         IN  (IF r.ok THEN <<[key |-> r.key, value |-> r.value]>> ELSE <<>>)
             \o FilterPairs(Tail(segs))

\* all_iter_raw, as the sequence the iterator yields.
all_iter_raw(s) == FilterPairs(Split(s, Semicolon))

(***************************************************************************)
(* Percent-encoding: the urlencoding crate, version 1.x (the versions with *)
(* FromUrlEncodingError, which cookies.rs imports).                        *)
(***************************************************************************)

\* The bytes encode leaves alone: A-Z a-z 0-9 - _ . ~
Unreserved(b) ==
    \/ b \in 65..90
    \/ b \in 97..122
    \/ b \in 48..57
    \/ b \in UnreservedMarks

\* The upper-case hexadecimal digit of n < 16.
HexDigit(n) == IF n < 10 THEN Digit0 + n ELSE UpperA + (n - 10)

\* urlencoding::encode: every other byte becomes %XX.
RECURSIVE encode(_)
encode(s) ==
    IF s = <<>> THEN <<>>
    ELSE (IF Unreserved(Head(s)) THEN <<Head(s)>>
          ELSE <<Percent, HexDigit(Head(s) \div 16), HexDigit(Head(s) % 16)>>)
         \o encode(Tail(s))

IsHex(b) == b \in (48..57) \cup (65..70) \cup (97..102)

HexVal(b) ==
    IF b \in 48..57 THEN b - 48 ELSE IF b \in 65..70 THEN b - 55 ELSE b - 87

\* Whether every '%' is followed by two hexadecimal digits (the validation
\* urlencoding 1.0 runs first; 1.1 and later have none).
RECURSIVE WellFormed(_)
WellFormed(s) ==
    IF s = <<>> THEN TRUE
    ELSE IF Head(s) # Percent THEN WellFormed(Tail(s))
    ELSE /\ Len(s) >= 3
         /\ IsHex(s[2])
         /\ IsHex(s[3])
         /\ WellFormed(SubSeq(s, 4, Len(s)))

\* The bytes a string unescapes to: %XX is the byte XX; from 1.1 on a '%'
\* that two hexadecimal digits do not follow stays as it is, with the bytes
\* read after it.
RECURSIVE Unescape(_)
Unescape(s) ==
    IF s = <<>> THEN <<>>
    ELSE IF Head(s) # Percent THEN <<Head(s)>> \o Unescape(Tail(s))
    ELSE IF Len(s) = 1 THEN <<Percent>>
    ELSE IF ~IsHex(s[2]) THEN <<Percent, s[2]>> \o Unescape(SubSeq(s, 3, Len(s)))
    ELSE IF Len(s) = 2 THEN <<Percent, s[2]>>
    ELSE IF ~IsHex(s[3])
         THEN <<Percent, s[2], s[3]>> \o Unescape(SubSeq(s, 4, Len(s)))
    ELSE <<16 * HexVal(s[2]) + HexVal(s[3])>> \o Unescape(SubSeq(s, 4, Len(s)))

IsContinuation(b) == b \in 128..191

\* String::from_utf8 succeeds: the bytes are well-formed UTF-8.
RECURSIVE ValidUtf8(_)
ValidUtf8(b) ==
    IF b = <<>> THEN TRUE
    ELSE LET b1 == Head(b)
             n  == IF b1 < 128 THEN 1
                   ELSE IF b1 \in 194..223 THEN 2
                   ELSE IF b1 \in 224..239 THEN 3
                   ELSE IF b1 \in 240..244 THEN 4
                   ELSE 0
         IN  /\ n # 0
             /\ Len(b) >= n
             /\ n >= 2 =>
                    b[2] \in (CASE b1 = 224 -> 160..191
                                [] b1 = 237 -> 128..159
                                [] b1 = 240 -> 144..191
                                [] b1 = 244 -> 128..143
                                [] OTHER    -> 128..191)
             /\ n >= 3 => IsContinuation(b[3])
             /\ n >= 4 => IsContinuation(b[4])
             /\ ValidUtf8(SubSeq(b, n + 1, Len(b)))

\* urlencoding::decode: Ok(string) or Err(FromUrlEncodingError).
decode(s) ==
    IF ~lenient /\ ~WellFormed(s)
    THEN [ok |-> FALSE, error |-> "UriCharacterError"]
    ELSE IF ValidUtf8(Unescape(s))
    THEN [ok |-> TRUE, value |-> Unescape(s)]
    ELSE [ok |-> FALSE, error |-> "Utf8CharacterError"]

(***************************************************************************)
(* The parsing functions.                                                  *)
(***************************************************************************)

\* The closure of all_iter, were the key of an Ok pair left as it is.
DecodePairRawKey(p) ==
    LET k == decode(p.key)
        v == decode(p.value)
    IN  IF k.ok
        THEN IF v.ok
             THEN [tag |-> "Ok", key |-> p.key, value |-> v.value]
             ELSE [tag |-> "Err", variant |-> "Value", key |-> k.value,
                   error |-> v.error]
        ELSE [tag |-> "Err", variant |-> "Key", key |-> p.key, error |-> k.error]

\* The closure of all_iter: one raw pair to Ok((key, value)) or
\* Err(AllDecodeError).
DecodePair(p) ==
    LET k == decode(p.key)
        v == decode(p.value)
    IN  IF k.ok
        THEN IF v.ok
             THEN [tag |-> "Ok", key |-> k.value, value |-> v.value]
             ELSE [tag |-> "Err", variant |-> "Value", key |-> k.value,
                   error |-> v.error]
        ELSE [tag |-> "Err", variant |-> "Key", key |-> p.key, error |-> k.error]

\* all_iter, as the sequence the iterator yields.
all_iter(s) == [i \in 1..Len(all_iter_raw(s)) |-> DecodePair(all_iter_raw(s)[i])]

\* An insert that keeps a former binding.
InsertIfAbsent(map, key, val) ==
    [k \in (DOMAIN map) \cup {key} |-> IF k \in DOMAIN map THEN map[k] ELSE val]

\* HashMap::insert: the map with key bound to value, a former binding lost.
Insert(map, key, val) ==
    [k \in (DOMAIN map) \cup {key} |-> IF k = key THEN val ELSE map[k]]

\* The empty HashMap.
EmptyMap == [k \in {} |-> <<>>]

\* collect() into a HashMap: the pairs inserted in order.
RECURSIVE CollectMap(_, _)
CollectMap(pairs, map) ==
    IF pairs = <<>> THEN map
    ELSE CollectMap(Tail(pairs), Insert(map, Head(pairs).key, Head(pairs).value))

\* A collect that goes on after an Err and returns the last one.
RECURSIVE CollectResultLastErr(_, _)
CollectResultLastErr(items, map) ==
    IF items = <<>> THEN [tag |-> "Ok", map |-> map]
    ELSE LET rest == CollectResultLastErr(
                         Tail(items),
                         IF Head(items).tag = "Ok"
                         THEN Insert(map, Head(items).key, Head(items).value)
                         ELSE map)
         IN  IF rest.tag = "Err" \/ Head(items).tag = "Ok" THEN rest
             ELSE Head(items)

\* collect() into a Result<HashMap, _>: the items are taken in order, the
\* first Err ends the iteration and is the result.
RECURSIVE CollectResult(_, _)
CollectResult(items, map) ==
    IF items = <<>> THEN [tag |-> "Ok", map |-> map]
    ELSE IF Head(items).tag = "Err" THEN Head(items)
    ELSE CollectResult(Tail(items), Insert(map, Head(items).key, Head(items).value))

all_raw(s) == CollectMap(all_iter_raw(s), EmptyMap)

all(s) == CollectResult(all_iter(s), EmptyMap)

\* A search of the segments that returns the last match.
RECURSIVE FindRawLast(_, _)
FindRawLast(segs, n) ==
    IF segs = <<>> THEN [tag |-> "None"]
    ELSE LET r == process_key_value_str(segs[Len(segs)])
         IN  IF r.ok /\ r.key = n
             THEN [tag |-> "Some", value |-> r.value]
             ELSE FindRawLast(SubSeq(segs, 1, Len(segs) - 1), n)

\* find_map of get_raw over the segments: the first Some.
RECURSIVE FindRaw(_, _)
FindRaw(segs, n) ==
    IF segs = <<>> THEN [tag |-> "None"]
    ELSE LET r == process_key_value_str(Head(segs))
         IN  IF r.ok /\ r.key = n
             THEN [tag |-> "Some", value |-> r.value]
             ELSE FindRaw(Tail(segs), n)

get_raw(s, n) == FindRaw(Split(s, Semicolon), n)

\* A search that takes a value that does not decode for no value.
RECURSIVE FindDecodedSkipErr(_, _)
FindDecodedSkipErr(segs, n) ==
    IF segs = <<>> THEN [tag |-> "None"]
    ELSE LET r == process_key_value_str(Head(segs))
         IN  IF r.ok /\ r.key = n /\ decode(r.value).ok
             THEN [tag |-> "Some", decoded |-> decode(r.value)]
             ELSE FindDecodedSkipErr(Tail(segs), n)

\* find_map of get over the segments, the name already encoded.
RECURSIVE FindDecoded(_, _)
FindDecoded(segs, n) ==
    IF segs = <<>> THEN [tag |-> "None"]
    ELSE LET r == process_key_value_str(Head(segs))
         IN  IF r.ok /\ r.key = n
             THEN [tag |-> "Some", decoded |-> decode(r.value)]
             ELSE FindDecoded(Tail(segs), n)

get(s, n) == FindDecoded(Split(s, Semicolon), encode(n))

(***************************************************************************)
(* Cookie options and their builder.                                       *)
(***************************************************************************)

\* Option<_>
None == [some |-> FALSE]

Some(x) == [some |-> TRUE, value |-> x]

\* CookieOptions::default(): the derived Default, and SameSite::default().
DefaultOptions ==
    [path |-> None, domain |-> None, expires |-> None, secure |-> FALSE,
     same_site |-> "Lax"]

with_path(self, path) == [self EXCEPT !.path = Some(path)]

with_domain(self, domain) == [self EXCEPT !.domain = Some(domain)]

TwoDigits(n) == <<Digit0 + (n \div 10), Digit0 + (n % 10)>>

\* The names of the days, from the day of the epoch (a Thursday) on.
DayNames ==
    << Lit(<<"T", "h", "u">>), Lit(<<"F", "r", "i">>), Lit(<<"S", "a", "t">>),
       Lit(<<"S", "u", "n">>), Lit(<<"M", "o", "n">>), Lit(<<"T", "u", "e">>),
       Lit(<<"W", "e", "d">>) >>

CommaSpace == Lit(<<",", " ">>)

January1970 == Lit(<<" ", "J", "a", "n", " ", "1", "9", "7", "0", " ">>)

Colon == Lit(<<":">>)

Gmt == Lit(<<" ", "G", "M", "T">>)

\* Date::to_utc_string of the date ms milliseconds after the epoch, for a
\* date in January 1970 (every date of the model is).
ToUtcString(ms) ==
    LET secs == ms \div 1000
        days == secs \div 86400
    IN  Concat(<< DayNames[(days % 7) + 1], CommaSpace, TwoDigits(days + 1),
                  January1970, TwoDigits((secs % 86400) \div 3600), Colon,
                  TwoDigits((secs % 3600) \div 60), Colon,
                  TwoDigits(secs % 60), Gmt >>)

\* The date is given as its time value, in milliseconds.
expires_at_date(self, date) == [self EXCEPT !.expires = Some(ToUtcString(date))]

\* Date::new(timestamp as f64 * 1000.0)
expires_at_timestamp(self, timestamp) == expires_at_date(self, timestamp * 1000)

\* (Date::now() / 1000.0 + duration.as_secs_f64()) as u64, the duration given
\* in milliseconds: the cast drops the fraction.
expires_after(self, duration) ==
    expires_at_timestamp(self, (now + duration) \div 1000)

secure(self) == [self EXCEPT !.secure = TRUE]

with_same_site(self, same_site) == [self EXCEPT !.same_site = same_site]

SameSite == {"Lax", "Strict", "None"}

SameSiteValues ==
    [Lax |-> Lit(<<"l", "a", "x">>),
     Strict |-> Lit(<<"s", "t", "r", "i", "c", "t">>),
     None |-> Lit(<<"n", "o", "n", "e">>)]

cookie_string_value(same_site) == SameSiteValues[same_site]

(***************************************************************************)
(* The serializer.                                                         *)
(***************************************************************************)

PathAttr == Lit(<<";", "p", "a", "t", "h", "=">>)

DomainAttr == Lit(<<";", "d", "o", "m", "a", "i", "n", "=">>)

ExpiresAttr == Lit(<<";", "e", "x", "p", "i", "r", "e", "s", "=">>)

SecureAttr == Lit(<<";", "s", "e", "c", "u", "r", "e">>)

SameSiteAttr == Lit(<<";", "s", "a", "m", "e", "s", "i", "t", "e", "=">>)

\* set_raw, were the default same-site policy left out.
set_raw_no_default_same_site(n, v, o) ==
    Concat(<< n, <<EqualsSign>>, v,
              IF o.path.some THEN PathAttr \o o.path.value ELSE <<>>,
              IF o.domain.some THEN DomainAttr \o o.domain.value ELSE <<>>,
              IF o.expires.some THEN ExpiresAttr \o o.expires.value ELSE <<>>,
              IF o.secure THEN SecureAttr ELSE <<>>,
              IF o.same_site = "Lax" THEN <<>>
              ELSE SameSiteAttr \o cookie_string_value(o.same_site) >>)

\* set_raw: the string after each push, in the order of the pushes.
set_raw(n, v, o) ==
    LET s0 == n \o <<EqualsSign>> \o v
        s1 == IF o.path.some
              THEN s0 \o PathAttr \o o.path.value
              ELSE s0
        s2 == IF o.domain.some
              THEN s1 \o DomainAttr \o o.domain.value
              ELSE s1
        s3 == IF o.expires.some
              THEN s2 \o ExpiresAttr \o o.expires.value
              ELSE s2
        s4 == IF o.secure
              THEN s3 \o SecureAttr
              ELSE s3
    IN  s4 \o SameSiteAttr \o cookie_string_value(o.same_site)

\* set, were the value not encoded.
set_value_as_is(n, v, o) == set_raw(encode(n), v, o)

set(n, v, o) == set_raw(encode(n), encode(v), o)

\* format!("{}=;expires=Thu, 01 Jan 1970 00:00:00 GMT", name)
DeleteSuffix ==
    Lit(<< "=", ";", "e", "x", "p", "i", "r", "e", "s", "=",
                "T", "h", "u", ",", " ", "0", "1", " ", "J", "a", "n", " ",
                "1", "9", "7", "0", " ", "0", "0", ":", "0", "0", ":", "0", "0",
         " ", "G", "M", "T" >>)

\* delete_raw, were the date that of the clock.
delete_raw_at_clock(n) == Concat(<<n, <<EqualsSign>>, ExpiresAttr, ToUtcString(now)>>)

delete_raw(n) == n \o DeleteSuffix

delete(n) == delete_raw(encode(n))

(***************************************************************************)
(* The inputs of the model.                                                *)
(***************************************************************************)

\* The most fragments a cookie string of the raw parser's runs is made of.
MaxRawFragments == 6

\* The most fragments a cookie string of the decoding runs is made of.
MaxDecFragments == 5

\* The most bytes of a name and of a value of the round-trip runs.
MaxNameLen == 2

MaxValueLen == 2

\* The strings made of at most n of the fragments.
Strings(fragments, n) ==
    {Concat(fs) : fs \in UNION {[1..k -> fragments] : k \in 0..n}}

RawFragments == {Lit(<<"a">>), Lit(<<"=">>), Lit(<<";">>), Lit(<<" ">>)}

RawNames == {<<>>, Lit(<<"a">>), Lit(<<"a", "a">>)}

\* An escape of a byte that is no UTF-8 (%AA), one of a space (%20), and a
\* '%' that no two hexadecimal digits follow.
DecFragments ==
    {Lit(<<"=">>), Lit(<<";">>), Lit(<<"%", "A", "A">>), Lit(<<"%", "2", "0">>),
     Lit(<<"%">>)}

DecNames == {<<>>, Lit(<<" ">>)}

\* The reserved characters of the round trip, and an unreserved one.
ArgBytes == {Ord("a"), Ord(" "), Percent, Ord(";"), Ord("=")}

Args(n) == UNION {[1..k -> ArgBytes] : k \in 0..n}

BuildNames == {Lit(<<"k", "e", "y">>), <<>>, Lit(<<"a", " ", ";">>)}

\* The last value is spelled like an attribute: set_raw validates nothing.
BuildValues ==
    {Lit(<<"v", "a", "l", "u", "e">>), <<>>, Lit(<<"%", ";", "s", "e", "c", "u", "r", "e">>)}

Paths == {Lit(<<"/", "p", "a", "t", "h">>), Lit(<<"/">>)}

Domains == {Lit(<<"e", "x", "a", "m", "p", "l", "e", ".", "c", "o", "m">>)}

\* Time values in milliseconds, timestamps in seconds, durations in
\* milliseconds.
Dates == {0, 86400000}

Timestamps == {3661}

Durations == {1500}

Clocks == {0, 86399900}

(***************************************************************************)
(* The calls.                                                              *)
(***************************************************************************)

Inputs == <<cookie_string, name, value, options, now, lenient>>

CallAllIterRaw ==
    /\ op' = "all_iter_raw"
    /\ result' = all_iter_raw(cookie_string)
    /\ UNCHANGED Inputs

CallAllRaw ==
    /\ op' = "all_raw"
    /\ result' = all_raw(cookie_string)
    /\ UNCHANGED Inputs

CallGetRaw ==
    /\ op' = "get_raw"
    /\ result' = get_raw(cookie_string, name)
    /\ UNCHANGED Inputs

CallAllIter ==
    /\ op' = "all_iter"
    /\ result' = all_iter(cookie_string)
    /\ UNCHANGED Inputs

CallAll ==
    /\ op' = "all"
    /\ result' = all(cookie_string)
    /\ UNCHANGED Inputs

CallGet ==
    /\ op' = "get"
    /\ result' = get(cookie_string, name)
    /\ UNCHANGED Inputs

CallSetRaw ==
    /\ op' = "set_raw"
    /\ result' = set_raw(name, value, options)
    /\ UNCHANGED Inputs

CallSet ==
    /\ op' = "set"
    /\ result' = set(name, value, options)
    /\ UNCHANGED Inputs

CallDeleteRaw ==
    /\ op' = "delete_raw"
    /\ result' = delete_raw(name)
    /\ UNCHANGED Inputs

CallDelete ==
    /\ op' = "delete"
    /\ result' = delete(name)
    /\ UNCHANGED Inputs

\* A builder call: the options value it returns replaces the one held.
Built(o, called) ==
    /\ options' = o
    /\ op' = called
    /\ result' = o
    /\ UNCHANGED <<cookie_string, name, value, now, lenient>>

CallWithPath == \E path \in Paths : Built(with_path(options, path), "with_path")

CallWithDomain ==
    \E domain \in Domains : Built(with_domain(options, domain), "with_domain")

CallExpiresAtDate ==
    \E date \in Dates : Built(expires_at_date(options, date), "expires_at_date")

CallExpiresAtTimestamp ==
    \E timestamp \in Timestamps :
        Built(expires_at_timestamp(options, timestamp), "expires_at_timestamp")

CallExpiresAfter ==
    \E duration \in Durations :
        Built(expires_after(options, duration), "expires_after")

CallSecure == Built(secure(options), "secure")

CallWithSameSite ==
    \E same_site \in SameSite :
        Built(with_same_site(options, same_site), "with_same_site")

\* The directive a set call returned is given back as the cookie string.
FeedBack ==
    /\ op = "set"
    /\ cookie_string' = result
    /\ op' = "feed"
    /\ UNCHANGED <<name, value, options, now, lenient, result>>

(***************************************************************************)
(* The specifications.                                                     *)
(***************************************************************************)

\* The raw parser on every cookie string of at most MaxRawFragments fragments.
InitRaw ==
    /\ cookie_string \in Strings(RawFragments, MaxRawFragments)
    /\ name \in RawNames
    /\ value = <<>>
    /\ options = DefaultOptions
    /\ now = 0
    /\ lenient = TRUE
    /\ op = "init"
    /\ result = <<>>

NextRaw == CallAllIterRaw \/ CallAllRaw \/ CallGetRaw

SpecRaw == InitRaw /\ [][NextRaw]_vars

\* The decoding parser, linked with either urlencoding.
InitDecoded ==
    /\ cookie_string \in Strings(DecFragments, MaxDecFragments)
    /\ name \in DecNames
    /\ value = <<>>
    /\ options = DefaultOptions
    /\ now = 0
    /\ lenient \in BOOLEAN
    /\ op = "init"
    /\ result = <<>>

NextDecoded == CallAllIter \/ CallAll \/ CallGet

SpecDecoded == InitDecoded /\ [][NextDecoded]_vars

\* The serializer, on options built by any sequence of builder calls.
InitBuild ==
    /\ cookie_string = <<>>
    /\ name \in BuildNames
    /\ value \in BuildValues
    /\ options = DefaultOptions
    /\ now \in Clocks
    /\ lenient = TRUE
    /\ op = "init"
    /\ result = <<>>

NextBuild ==
    \/ CallWithPath
    \/ CallWithDomain
    \/ CallExpiresAtDate
    \/ CallExpiresAtTimestamp
    \/ CallExpiresAfter
    \/ CallSecure
    \/ CallWithSameSite
    \/ CallSetRaw
    \/ CallSet
    \/ CallDeleteRaw
    \/ CallDelete

SpecBuild == InitBuild /\ [][NextBuild]_vars

\* set with the default options, its directive read back by get.
InitRoundTrip ==
    /\ cookie_string = <<>>
    /\ name \in Args(MaxNameLen)
    /\ value \in Args(MaxValueLen)
    /\ options = DefaultOptions
    /\ now = 0
    /\ lenient \in BOOLEAN
    /\ op = "init"
    /\ result = <<>>

NextRoundTrip == CallSet \/ FeedBack \/ CallGet

SpecRoundTrip == InitRoundTrip /\ [][NextRoundTrip]_vars

(***************************************************************************)
(* What the segments of a cookie string are, stated without the parser.    *)
(***************************************************************************)

\* The least and the greatest of a non-empty set of naturals.
Min(S) == CHOOSE x \in S : \A y \in S : x <= y

Max(S) == CHOOSE x \in S : \A y \in S : y <= x

\* The positions that bound a segment: those of the ';', and both ends.
Cuts(s) == {0, Len(s) + 1} \cup {i \in 1..Len(s) : s[i] = Semicolon}

\* The segments, each as <<lo, hi>>: the text strictly between two
\* neighbouring cuts.
Segments(s) ==
    {c \in Cuts(s) \X Cuts(s) :
        c[1] < c[2] /\ \A k \in Cuts(s) : ~(c[1] < k /\ k < c[2])}

\* The positions of the '=' of a segment.
EqualsIn(s, c) == {i \in (c[1] + 1)..(c[2] - 1) : s[i] = EqualsSign}

PairSegments(s) == {c \in Segments(s) : EqualsIn(s, c) # {}}

\* The place of a pair segment among the pair segments.
Rank(s, c) == 1 + Cardinality({d \in PairSegments(s) : d[1] < c[1]})

\* The trimmed text before the first '=' and the trimmed text after it.
KeyText(s, c) == Trim(SubSeq(s, c[1] + 1, Min(EqualsIn(s, c)) - 1))

ValueText(s, c) == Trim(SubSeq(s, Min(EqualsIn(s, c)) + 1, c[2] - 1))

\* The places in a sequence of pairs where the key is k.
Occurrences(pairs, k) == {i \in 1..Len(pairs) : pairs[i].key = k}

(***************************************************************************)
(* The raw parser's claims, under SpecRaw.                                 *)
(***************************************************************************)

\* C1: of a segment with more than one '=', all_iter_raw yields as value the
\* trimmed text of everything after the first '=', the later '=' included.
C1_ValueKeepsLaterEquals ==
    op = "all_iter_raw" =>
        \A c \in PairSegments(cookie_string) :
            Cardinality(EqualsIn(cookie_string, c)) > 1 =>
                result[Rank(cookie_string, c)].value = ValueText(cookie_string, c)

\* C9: all_iter_raw yields one pair for each segment that holds an '=', in
\* the order of the segments and duplicates kept, and none for the others;
\* the key is the trimmed text before the first '=' and, of a segment with
\* one '=', the value is the trimmed text after it, either of which may be
\* empty.
C9_OnePairPerSegmentWithEquals ==
    op = "all_iter_raw" =>
        /\ Len(result) = Cardinality(PairSegments(cookie_string))
        /\ \A c \in PairSegments(cookie_string) :
              /\ result[Rank(cookie_string, c)].key = KeyText(cookie_string, c)
              /\ Cardinality(EqualsIn(cookie_string, c)) = 1 =>
                    result[Rank(cookie_string, c)].value
                        = ValueText(cookie_string, c)

\* C9's case: two pairs with the same empty key, one of them with an empty
\* value too, around a segment of whitespace only.
C9_Witness ==
    /\ op = "all_iter_raw"
    /\ Len(result) = 2
    /\ result[1].key = <<>> /\ result[2].key = <<>>
    /\ result[1].value # <<>> /\ result[2].value = <<>>
    /\ \E c \in Segments(cookie_string) \ PairSegments(cookie_string) :
          c[2] > c[1] + 1

\* C6: all_raw's keys are the keys all_iter_raw yields, each bound to the
\* value of the last pair with that key; the empty string gives the empty map.
C6_AllRawLastWins ==
    op = "all_raw" =>
        LET pairs == all_iter_raw(cookie_string)
        IN  /\ DOMAIN result = {pairs[i].key : i \in 1..Len(pairs)}
            /\ \A k \in DOMAIN result :
                  result[k] = pairs[Max(Occurrences(pairs, k))].value
            /\ cookie_string = <<>> => DOMAIN result = {}

\* C6's case: a key that occurs twice, with different values.
C6_Witness ==
    /\ op = "all_raw"
    /\ LET pairs == all_iter_raw(cookie_string)
       IN  \E i, j \in 1..Len(pairs) :
              /\ i < j
              /\ pairs[i].key = pairs[j].key
              /\ pairs[i].value # pairs[j].value

\* C7: get_raw returns the value of the first pair whose key is the name,
\* byte for byte, and None when no pair has that key.
C7_GetRawFirstMatch ==
    op = "get_raw" =>
        LET pairs == all_iter_raw(cookie_string)
            hits  == Occurrences(pairs, name)
        IN  IF hits = {}
            THEN result = [tag |-> "None"]
            ELSE result = [tag |-> "Some", value |-> pairs[Min(hits)].value]

\* C7's case: the name is the key of two pairs with different values.
C7_Witness ==
    /\ op = "get_raw"
    /\ result.tag = "Some"
    /\ LET pairs == all_iter_raw(cookie_string)
       IN  \E i, j \in Occurrences(pairs, name) :
              i < j /\ pairs[i].value # pairs[j].value

(***************************************************************************)
(* The decoding parser's claims, under SpecDecoded.                        *)
(***************************************************************************)

\* The places of the pairs whose key or value does not decode.
Undecodable(pairs) ==
    {i \in 1..Len(pairs) : ~decode(pairs[i].key).ok \/ ~decode(pairs[i].value).ok}

\* C2: all fails with the error of the first pair, in segment order, that
\* does not decode, whatever follows it: Key with the raw key when the key
\* does not decode, else Value with the decoded key.  It returns a map, of
\* the decoded keys, only when every key and every value decodes.
C2_AllFirstErrorWins ==
    op = "all" =>
        LET pairs == all_iter_raw(cookie_string)
            bad   == Undecodable(pairs)
        IN  IF bad = {}
            THEN /\ result.tag = "Ok"
                 /\ DOMAIN result.map
                        = {decode(pairs[i].key).value : i \in 1..Len(pairs)}
            ELSE LET p == pairs[Min(bad)]
                 IN  /\ result.tag = "Err"
                     /\ IF ~decode(p.key).ok
                        THEN result.variant = "Key" /\ result.key = p.key
                        ELSE /\ result.variant = "Value"
                             /\ result.key = decode(p.key).value

\* C2's case: the value of one pair does not decode and the key of a later
\* pair does not either.
C2_Witness ==
    /\ op = "all"
    /\ result.tag = "Err"
    /\ result.variant = "Value"
    /\ LET pairs == all_iter_raw(cookie_string)
       IN  \E i \in Undecodable(pairs) :
              i > Min(Undecodable(pairs)) /\ ~decode(pairs[i].key).ok

\* C5: get returns None exactly when no pair has the percent-encoded name as
\* its raw key; otherwise Some of what decoding the value of the first such
\* pair gives, the string or the error.
C5_GetAbsentOrPresent ==
    op = "get" =>
        LET pairs == all_iter_raw(cookie_string)
            hits  == Occurrences(pairs, encode(name))
        IN  IF hits = {}
            THEN result = [tag |-> "None"]
            ELSE LET d == decode(pairs[Min(hits)].value)
                 IN  /\ result.tag = "Some"
                     /\ result.decoded.ok = d.ok
                     /\ d.ok => result.decoded.value = d.value

\* C5's case: the name is found under its encoded form and its value does
\* not decode.
C5_Witness ==
    /\ op = "get"
    /\ encode(name) # name
    /\ result.tag = "Some"
    /\ ~result.decoded.ok

\* The places of the pairs whose key decodes to n.
DecodedOccurrences(pairs, n) ==
    {i \in 1..Len(pairs) : decode(pairs[i].key).ok /\ decode(pairs[i].key).value = n}

\* C10: when get finds and decodes a value and all succeeds on the same
\* string, the name is a key of all's map; and it is bound to that value
\* when one pair only has a key that decodes to the name.
C10_GetAgreesWithAll ==
    (op = "get" /\ result.tag = "Some" /\ result.decoded.ok
                /\ all(cookie_string).tag = "Ok") =>
        /\ name \in DOMAIN all(cookie_string).map
        /\ Cardinality(DecodedOccurrences(all_iter_raw(cookie_string), name)) = 1 =>
              all(cookie_string).map[name] = result.decoded.value

\* C10's case: a name that encoding changes, found once, beside another pair.
C10_Witness ==
    /\ op = "get"
    /\ encode(name) # name
    /\ result.tag = "Some"
    /\ result.decoded.ok
    /\ result.decoded.value # <<>>
    /\ all(cookie_string).tag = "Ok"
    /\ Cardinality(DOMAIN all(cookie_string).map) = 2
    /\ Cardinality(DecodedOccurrences(all_iter_raw(cookie_string), name)) = 1

(***************************************************************************)
(* The round trip, under SpecRoundTrip.                                    *)
(***************************************************************************)

\* C3: get, on the directive set built from a name, a value and the default
\* options, returns the value, found and decoded.  (The cookie string is
\* empty until a directive is fed back, and no directive is empty.)
C3_RoundTrip ==
    (op = "get" /\ cookie_string # <<>>) =>
        result = [tag |-> "Some", decoded |-> [ok |-> TRUE, value |-> value]]

\* C3's case: a name that encoding changes, and a value with ';' and '='.
C3_Witness ==
    /\ op = "get"
    /\ cookie_string # <<>>
    /\ encode(name) # name
    /\ \E i, j \in 1..Len(value) : value[i] = Semicolon /\ value[j] = EqualsSign

(***************************************************************************)
(* The serializer's claims, under SpecBuild.                               *)
(***************************************************************************)

\* An attribute with a value: nothing when the field is None.
Attribute(prefix, field) == IF field.some THEN prefix \o field.value ELSE <<>>

\* Whether part occurs in s.
Contains(s, part) ==
    \E i \in 0..Len(s) :
        i + Len(part) <= Len(s) /\ SubSeq(s, i + 1, i + Len(part)) = part

KeyValueLax ==
    Lit(<< "k", "e", "y", "=", "v", "a", "l", "u", "e",
           ";", "s", "a", "m", "e", "s", "i", "t", "e", "=", "l", "a", "x" >>)

KeyValuePathDomainSecureLax ==
    Lit(<< "k", "e", "y", "=", "v", "a", "l", "u", "e",
           ";", "p", "a", "t", "h", "=", "/", "p", "a", "t", "h",
           ";", "d", "o", "m", "a", "i", "n", "=",
           "e", "x", "a", "m", "p", "l", "e", ".", "c", "o", "m",
           ";", "s", "e", "c", "u", "r", "e",
           ";", "s", "a", "m", "e", "s", "i", "t", "e", "=", "l", "a", "x" >>)

\* C4: whatever builder calls made the options, set_raw returns name=value,
\* then ;path= ;domain= ;expires= each once when its field is set, then
\* ;secure when the flag is set, then ;samesite= always and last.
C4_SetRawFixedOrder ==
    op = "set_raw" =>
        /\ result = Concat(<< name, <<EqualsSign>>, value,
                              Attribute(PathAttr, options.path),
                              Attribute(DomainAttr, options.domain),
                              Attribute(ExpiresAttr, options.expires),
                              IF options.secure THEN SecureAttr ELSE <<>>,
                              SameSiteAttr, SameSiteValues[options.same_site] >>)
        /\ (name = Lit(<<"k", "e", "y">>) /\ value = Lit(<<"v", "a", "l", "u", "e">>)) =>
              /\ options = DefaultOptions => result = KeyValueLax
              /\ options = [DefaultOptions EXCEPT
                               !.path = Some(Lit(<<"/", "p", "a", "t", "h">>)),
                               !.domain = Some(Lit(<<"e", "x", "a", "m", "p", "l", "e",
                                                     ".", "c", "o", "m">>)),
                               !.secure = TRUE]
                    => result = KeyValuePathDomainSecureLax

\* C4's case: every field set, the same-site policy last.
C4_Witness ==
    /\ op = "set_raw"
    /\ options.path.some
    /\ options.domain.some
    /\ options.expires.some
    /\ options.secure
    /\ options.same_site = "Strict"
    /\ name # <<>>

KeyDeleted ==
    Lit(<< "k", "e", "y", "=", ";", "e", "x", "p", "i", "r", "e", "s", "=",
           "T", "h", "u", ",", " ", "0", "1", " ", "J", "a", "n", " ",
           "1", "9", "7", "0", " ", "0", "0", ":", "0", "0", ":", "0", "0",
           " ", "G", "M", "T" >>)

\* C8: delete_raw returns the name, then =;expires= and the date of the
\* epoch, whatever the clock and the options, and none of the attributes of
\* set_raw; delete does the same with the encoded name.
C8_DeleteFixedPastDate ==
    /\ op = "delete_raw" =>
          /\ result = Concat(<<name, <<EqualsSign>>, ExpiresAttr, ToUtcString(0)>>)
          /\ name = Lit(<<"k", "e", "y">>) => result = KeyDeleted
          /\ \A attr \in {PathAttr, DomainAttr, SecureAttr, SameSiteAttr} :
                ~Contains(SubSeq(result, Len(name) + 1, Len(result)), attr)
    /\ op = "delete" =>
          result = Concat(<<encode(name), <<EqualsSign>>, ExpiresAttr, ToUtcString(0)>>)

\* C8's case: a name that encoding changes, deleted after the clock has moved
\* and options have been built.
C8_Witness ==
    /\ op = "delete"
    /\ encode(name) # name
    /\ now # 0
    /\ options.path.some

====
